---- MODULE Spec2Model ----
(***************************************************************************)
(* A model of src/server.js: the Express service that sums, per language,  *)
(* the lines of code of a GitHub user's repositories, with a per-repository*)
(* cache (cache.json) and a blacklist (blacklist.json).                    *)
(*                                                                         *)
(* One step of the model is what the Node event loop runs without          *)
(* interruption: the code of a handler from one await to the next.         *)
(***************************************************************************)
EXTENDS Integers, Sequences, FiniteSets, TLC

\* ------------------------------------------------------------------ bounds
\* linesOfCode values a record of the line counter may carry: 1..MaxLines
MaxLines == 1
\* longest response (number of records) of the line counter
MaxRecs == 2
\* pushed_at markers are 1..MaxMarker (compared for equality only)
MaxMarker == 2
\* writes of cache.json that fail in one run of the server
MaxDiskFaults == 1

\* ------------------------------------------------------------ the universe
\* request handlers that may be in flight at the same time
Procs == {"p1", "p2"}
\* short names of the user's repositories (repo.name)
Names == {"a", "b"}
Langs == {"JS", "Go"}

\* repo.full_name of the repository whose short name is n
FullName(n) == IF n = "a" THEN "u/a" ELSE "u/b"

EmptyMap == [x \in {} |-> 0]

\* Put with the object replaced by one that has the key k only
PutAlone(obj, k, v) == [x \in {k} |-> v]

\* obj[k] = v on a JS object
Put(obj, k, v) == [x \in DOMAIN obj \cup {k} |-> IF x = k THEN v ELSE obj[x]]

\* --------------------------------------------------------------- the files
\* A file is absent, holds text JSON.parse rejects, or holds a JSON object.
AbsentFile == [kind |-> "absent", val |-> EmptyMap]
GarbageFile == [kind |-> "garbage", val |-> EmptyMap]

\* JSON.stringify of a cache object: integers, strings and nested objects
\* only, which the text carries as they are
JSONstringify(obj) == [kind |-> "json", val |-> obj]

\* let cache = {}
DefaultCache == EmptyMap

\* let blacklist = {repos: [], paths: [], languages: []}
DefaultBlacklist == [repos |-> {}, paths |-> <<>>, languages |-> {}]

\* loadDataFromFile's return value: the parsed data when the file exists,
\* parses and holds an object, the default value otherwise
loadDataFromFile(file, defaultValue) ==
  IF file.kind = "json" THEN file.val ELSE defaultValue

\* the file as loadDataFromFile leaves it: written with the default when absent
FileAfterLoad(file, defaultValue) ==
  IF file.kind = "absent" THEN JSONstringify(defaultValue) ELSE file

\* cache.json documents the server may find at startup
CacheFiles ==
  { AbsentFile, GarbageFile, JSONstringify(EmptyMap),
    JSONstringify("u/a" :> [latestCommit |-> 1,
                            languages |-> ("JS" :> 1 @@ "Go" :> 1)]) }

\* blacklist.json documents with the three array fields, or no file (the
\* documents the requests of Spec and SpecConc are checked against)
BlacklistFiles ==
  { [kind |-> "absent", val |-> DefaultBlacklist],
    JSONstringify([repos |-> {"b"}, paths |-> <<"dist">>, languages |-> {"Go"}]) }

\* ------------------------------------------------------------------- state
VARIABLES
  cache,          \* the in-memory cache: full_name -> {latestCommit, languages}
  disk,           \* cache.json
  blacklist,      \* the in-memory blacklist
  pushed,         \* GitHub: the current pushed_at of each repository
  pc,             \* where each handler is suspended
  route,          \* the request each handler serves
  repos,          \* the listing getRepositories returned to the handler
  idx,            \* the position in repos of the repository being resolved
  languageCounts, \* aggregateLanguageCounts' running total
  languages,      \* fetchLanguageCountsForRepo's fresh mapping
  response,       \* the line counter's response the handler is working on
  snapshot,       \* the text the handler's pending writeFile carries
  diskFaults,     \* how many writes of cache.json have failed
  res,            \* the response sent
  log,            \* history: what the handler has done for this request
  loaded          \* history: the cache as line 53 loaded it

vars == <<cache, disk, blacklist, pushed, pc, route, repos, idx,
          languageCounts, languages, response, snapshot, diskFaults, res, log,
          loaded>>

\* ----------------------------------------------------------------- history
Ev(op, repo, at, had, langs) ==
  [op |-> op, repo |-> repo, at |-> at, had |-> had, langs |-> langs]

Ev0(op) == Ev(op, "", 0, 0, EmptyMap)

NoRoute == [kind |-> "none", repoName |-> ""]
NoRes == [status |-> 0, body |-> EmptyMap, error |-> ""]
NoReply == [kind |-> "none", data |-> <<>>]

TypeInit ==
  /\ pc = [q \in Procs |-> "idle"]
  /\ route = [q \in Procs |-> NoRoute]
  /\ repos = [q \in Procs |-> <<>>]
  /\ idx = [q \in Procs |-> 0]
  /\ languageCounts = [q \in Procs |-> EmptyMap]
  /\ languages = [q \in Procs |-> EmptyMap]
  /\ response = [q \in Procs |-> NoReply]
  /\ snapshot = [q \in Procs |-> AbsentFile]
  /\ res = [q \in Procs |-> NoRes]
  /\ log = [q \in Procs |-> <<>>]

\* The state once the module has been loaded (lines 24-54): both files read,
\* each created with its default when it was absent.
Init ==
  /\ \E cf \in CacheFiles :
       /\ cache = loadDataFromFile(cf, DefaultCache)
       /\ disk = FileAfterLoad(cf, DefaultCache)
       /\ loaded = loadDataFromFile(cf, DefaultCache)
  /\ \E bf \in BlacklistFiles : blacklist = loadDataFromFile(bf, DefaultBlacklist)
  /\ pushed = [n \in Names |-> 1]
  /\ diskFaults = 0
  /\ TypeInit

\* ------------------------------------------------------- the collaborators
\* what GitHub lists for a repository now
RepoRef(n) == [name |-> n, full_name |-> FullName(n), pushed_at |-> pushed[n]]

\* the listings getRepositories may return: some of the user's repositories,
\* each once, in any order
Listings ==
  { s \in UNION {[1..k -> Names] : k \in 0..Cardinality(Names)} :
      \A i, j \in DOMAIN s : i # j => s[i] # s[j] }

\* a record of the line counter's response
Records == [language : Langs, linesOfCode : 1..MaxLines]

\* the responses of the line counter that are arrays
LocData == UNION {[1..k -> Records] : k \in 0..MaxRecs}

\* what axios.get gives for the line counter: a rejection ("error"), a body
\* that is no array ("object"), or an array of records
LocReplies ==
  {[kind |-> "error", data |-> <<>>], [kind |-> "object", data |-> <<>>]}
    \cup {[kind |-> "array", data |-> d] : d \in LocData}

\* BudgetExhausted with < for ===
BudgetExhaustedBelow(remaining) == remaining < 0

\* line 197: rateLimit.rate.remaining === 0
BudgetExhausted(remaining) == remaining = 0

\* ReplyThrows with a body that is no array taken for an empty one
ReplyThrowsOnError(reply) == reply.kind = "error"

\* lines 127 and 130: axios.get rejects, or response.data has no forEach
ReplyThrows(reply) == reply.kind # "array"

\* SaveThrows without the try/catch
SaveThrowsUncaught(how) == how \in {"refused", "truncated"}

\* lines 63-67: saveCacheToFile catches the error of writeFile and logs it,
\* so nothing is thrown to fetchLanguageCountsForRepo
SaveThrows(how) == FALSE

\* ---------------------------------------------------------- pure functions
\* CacheIsFresh with the markers compared for order, not for equality
CacheIsFreshNewer(repo) ==
  /\ repo.full_name \in DOMAIN cache
  /\ cache[repo.full_name].latestCommit > repo.pushed_at

\* CacheIsFresh with the markers not compared
CacheIsFreshAny(repo) == repo.full_name \in DOMAIN cache

\* line 121: the cached data is up to date
CacheIsFresh(repo) ==
  /\ repo.full_name \in DOMAIN cache
  /\ cache[repo.full_name].latestCommit = repo.pushed_at

\* KeepLanguage without the blacklist
KeepLanguageAny(language) == language \in Langs

\* line 135: the language is not blacklisted
KeepLanguage(language) == language \notin blacklist.languages

\* AddLines with = for +=: a later record replaces the earlier ones
AddLinesLast(langs, language, lines) == Put(langs, language, lines)

\* line 136: languages[language] = (languages[language] || 0) + lines
AddLines(langs, language, lines) ==
  Put(langs, language,
      (IF language \in DOMAIN langs THEN langs[language] ELSE 0) + lines)

\* lines 130-138: response.data.forEach from record k on
RECURSIVE forEachRecord(_, _, _)
forEachRecord(data, k, langs) ==
  IF k > Len(data) THEN langs
  ELSE forEachRecord(data, k + 1,
         IF KeepLanguage(data[k].language)
         THEN AddLines(langs, data[k].language, data[k].linesOfCode)
         ELSE langs)

\* lines 129-138: the fresh mapping built from a response
CountLanguages(data) == forEachRecord(data, 1, EmptyMap)

\* AddEntries with = for +=: the last repository's count replaces the total
AddEntriesLast(total, repoLanguages) ==
  [l \in DOMAIN total \cup DOMAIN repoLanguages |->
     IF l \in DOMAIN repoLanguages THEN repoLanguages[l] ELSE total[l]]

\* lines 158-163: add a repository's mapping into the running total
AddEntries(total, repoLanguages) ==
  [l \in DOMAIN total \cup DOMAIN repoLanguages |->
     (IF l \in DOMAIN total THEN total[l] ELSE 0)
     + (IF l \in DOMAIN repoLanguages THEN repoLanguages[l] ELSE 0)]

\* RepoBlacklisted with the full name looked up in place of the short name
RepoBlacklistedFullName(repo) == repo.full_name \in blacklist.repos

\* line 156: the repository is blacklisted
RepoBlacklisted(repo) == repo.name \in blacklist.repos

\* lines 116-145 and 152-168: aggregateLanguageCounts run to its end from
\* position i with the cache c and the running total, when no other request
\* is in flight and the line counter answers answers[full_name] for a
\* repository it is called for. ok is FALSE when the run throws.
RECURSIVE RunAggregate(_, _, _, _, _)
RunAggregate(c, rs, i, total, answers) ==
  IF i > Len(rs) THEN [ok |-> TRUE, cache |-> c, body |-> total]
  ELSE IF "repos" \notin DOMAIN blacklist
  THEN [ok |-> FALSE, cache |-> c, body |-> EmptyMap]
  ELSE IF RepoBlacklisted(rs[i]) THEN RunAggregate(c, rs, i + 1, total, answers)
  ELSE LET r == rs[i].full_name
           reply == answers[r]
           fresh == CountLanguages(reply.data)
       IN  IF r \in DOMAIN c /\ c[r].latestCommit = rs[i].pushed_at
           THEN RunAggregate(c, rs, i + 1, AddEntries(total, c[r].languages), answers)
           ELSE IF \/ "paths" \notin DOMAIN blacklist
                   \/ ReplyThrows(reply)
                   \/ reply.data # <<>> /\ "languages" \notin DOMAIN blacklist
           THEN [ok |-> FALSE, cache |-> c, body |-> EmptyMap]
           ELSE RunAggregate(Put(c, r, [latestCommit |-> rs[i].pushed_at,
                                        languages |-> fresh]),
                             rs, i + 1, AddEntries(total, fresh), answers)

\* what a handler does until it next suspends or responds
Out(p, i, total, lg, r) ==
  [pc |-> p, idx |-> i, languageCounts |-> total, log |-> lg, res |-> r]

Ok200(body) == [status |-> 200, body |-> body, error |-> ""]
Err(status, msg) == [status |-> status, body |-> EmptyMap, error |-> msg]

\* Throw with the running total sent in the error body
ThrowPartial(i, total, lg, msg) ==
  Out("done", i, total, Append(lg, Ev0("throw")),
      [status |-> 500, body |-> total, error |-> msg])

\* Throw with the listing asked for again in place of the response
ThrowRetry(i, total, lg, msg) ==
  Out("list", 0, EmptyMap, Append(lg, Ev0("list")), NoRes)

\* lines 206-207, 226-227: catch (error) { res.status(500) }
Throw(i, total, lg, msg) ==
  Out("done", i, total, Append(lg, Ev0("throw")), Err(500, msg))

\* the history entry of a call of fetchLanguageCountsForRepo: the repository,
\* its marker, and the cache entry the call finds
FetchEv(repo) ==
  LET has == repo.full_name \in DOMAIN cache
  IN  Ev("fetch", repo.full_name, repo.pushed_at,
         IF has THEN cache[repo.full_name].latestCommit ELSE 0,
         IF has THEN cache[repo.full_name].languages ELSE EmptyMap)

\* lines 116-127: fetchLanguageCountsForRepo up to its first await
FetchEnter(repo, lg) ==
  LET lg1 == Append(lg, FetchEv(repo))
  IN  IF CacheIsFresh(repo)
      THEN [state |-> "hit", languages |-> cache[repo.full_name].languages,
            log |-> Append(lg1, Ev("hit", repo.full_name, repo.pushed_at, 0,
                                   cache[repo.full_name].languages))]
      ELSE IF "paths" \notin DOMAIN blacklist
      THEN [state |-> "throw", languages |-> EmptyMap, log |-> lg1]
      ELSE [state |-> "await", languages |-> EmptyMap,
            log |-> Append(lg1, Ev("loc", repo.full_name, repo.pushed_at, 0, EmptyMap))]

\* lines 155-167: the loop of aggregateLanguageCounts from position i on, up
\* to the next await or the return
RECURSIVE Aggregate(_, _, _, _)
Aggregate(rs, i, total, lg) ==
  IF i > Len(rs) THEN Out("done", i, total, Append(lg, Ev0("return")), Ok200(total))
  ELSE IF "repos" \notin DOMAIN blacklist
  THEN Throw(i, total, lg, "TypeError")
  ELSE IF RepoBlacklisted(rs[i]) THEN Aggregate(rs, i + 1, total, lg)
  ELSE LET f == FetchEnter(rs[i], lg)
       IN  CASE f.state = "hit" ->
                  Aggregate(rs, i + 1, AddEntries(total, f.languages), f.log)
             [] f.state = "throw" -> Throw(i, total, f.log, "TypeError")
             [] OTHER -> Out("loc", i, total, f.log, NoRes)

\* Find with no test of the name: the first repository of the listing
FindFirst(rs, repoName) == IF rs # <<>> THEN 1 ELSE 0

\* line 180: repos.find((r) => r.name === repoName), 0 when there is none
Find(rs, repoName) ==
  IF \E i \in DOMAIN rs : rs[i].name = repoName
  THEN CHOOSE i \in DOMAIN rs :
         /\ rs[i].name = repoName
         /\ \A j \in DOMAIN rs : rs[j].name = repoName => i <= j
  ELSE 0

\* lines 179-188: countLinesOfCode once the listing has arrived
CountLines(rs, rt, lg) ==
  IF rt.kind = "one"
  THEN LET i == Find(rs, rt.repoName)
       IN  IF i = 0 THEN Throw(0, EmptyMap, lg, "Repository not found")
           ELSE LET f == FetchEnter(rs[i], lg)
                IN  CASE f.state = "hit" ->
                           Out("done", i, EmptyMap, Append(f.log, Ev0("return")),
                               Ok200(f.languages))
                      [] f.state = "throw" -> Throw(i, EmptyMap, f.log, "TypeError")
                      [] OTHER -> Out("loc", i, EmptyMap, f.log, NoRes)
  ELSE Aggregate(rs, 1, EmptyMap, lg)

\* Returned with the loop taken up at the same repository again
ReturnedAgain(rs, rt, i, total, langs, lg) ==
  IF rt.kind = "one"
  THEN Out("done", i, total, Append(lg, Ev0("return")), Ok200(langs))
  ELSE Aggregate(rs, i, AddEntries(total, langs), lg)

\* lines 144, 157-167 and 182: fetchLanguageCountsForRepo returns its fresh
\* mapping to its caller
Returned(rs, rt, i, total, langs, lg) ==
  IF rt.kind = "one"
  THEN Out("done", i, total, Append(lg, Ev0("return")), Ok200(langs))
  ELSE Aggregate(rs, i + 1, AddEntries(total, langs), lg)

\* the handler q goes on as out says
Resume(q, out) ==
  /\ pc' = [pc EXCEPT ![q] = out.pc]
  /\ idx' = [idx EXCEPT ![q] = out.idx]
  /\ languageCounts' = [languageCounts EXCEPT ![q] = out.languageCounts]
  /\ log' = [log EXCEPT ![q] = out.log]
  /\ res' = [res EXCEPT ![q] = out.res]

\* ----------------------------------------------------------------- actions
\* the variables of the handlers that a step leaves alone unless it says so
Locals == <<route, repos, languages, response, snapshot>>
Shared == <<cache, disk, blacklist, pushed, diskFaults, loaded>>

\* lines 194-196, 214-216: a request arrives and getRateLimit is called
Request(q, rt) ==
  /\ pc[q] = "idle"
  /\ route' = [route EXCEPT ![q] = rt]
  /\ Resume(q, Out("rate", 0, EmptyMap, <<Ev0("rate")>>, NoRes))
  /\ UNCHANGED <<Shared, repos, languages, response, snapshot>>

\* lines 196-204: the rate limit arrives with rate.remaining = remaining;
\* the handler answers 429 when it is 0, and calls countLinesOfCode, which
\* calls getRepositories, when it is not
RateReply(q, remaining) ==
  /\ pc[q] = "rate"
  /\ LET lg == Append(log[q], Ev("budget", "", remaining, 0, EmptyMap))
     IN  Resume(q, IF BudgetExhausted(remaining)
                   THEN Out("done", 0, EmptyMap, lg, Err(429, "Rate limit exceeded"))
                   ELSE Out("list", 0, EmptyMap, Append(lg, Ev0("list")), NoRes))
  /\ UNCHANGED <<Shared, Locals>>

\* lines 84-87, 206-207: getRateLimit fails
RateFail(q) ==
  /\ pc[q] = "rate"
  /\ Resume(q, Throw(0, EmptyMap, log[q], "rate limit failed"))
  /\ UNCHANGED <<Shared, Locals>>

\* lines 177-188: the listing arrives
ListReply(q, names) ==
  /\ pc[q] = "list"
  /\ LET rs == [i \in DOMAIN names |-> RepoRef(names[i])]
     IN  /\ repos' = [repos EXCEPT ![q] = rs]
         /\ Resume(q, CountLines(rs, route[q], log[q]))
  /\ UNCHANGED <<Shared, route, languages, response, snapshot>>

\* lines 105-108: getRepositories fails
ListFail(q) ==
  /\ pc[q] = "list"
  /\ Resume(q, Throw(0, EmptyMap, log[q], "listing failed"))
  /\ UNCHANGED <<Shared, Locals>>

\* lines 127-142: the line counter's call ends. When it failed, or its
\* response is no array, fetchLanguageCountsForRepo throws; otherwise the
\* fresh mapping is built and stored, and saveCacheToFile starts writing the
\* cache as it is now
LocReply(q, reply) ==
  /\ pc[q] = "loc"
  /\ LET repo == repos[q][idx[q]]
         lg == Append(log[q], Ev(reply.kind, repo.full_name, repo.pushed_at, 0, EmptyMap))
         fresh == CountLanguages(reply.data)
         entry == [latestCommit |-> repo.pushed_at, languages |-> fresh]
     IN  IF \/ ReplyThrows(reply)
            \/ reply.data # <<>> /\ "languages" \notin DOMAIN blacklist
         THEN /\ Resume(q, Throw(idx[q], languageCounts[q], lg,
                                 IF reply.kind = "error" THEN "Network Error"
                                                         ELSE "TypeError"))
              /\ UNCHANGED <<cache, languages, response, snapshot>>
         ELSE /\ cache' = Put(cache, repo.full_name, entry)
              /\ languages' = [languages EXCEPT ![q] = fresh]
              /\ response' = [response EXCEPT ![q] = reply]
              /\ snapshot' = [snapshot EXCEPT ![q] = JSONstringify(cache')]
              /\ Resume(q, Out("save", idx[q], languageCounts[q],
                               lg \o <<Ev("put", repo.full_name, repo.pushed_at, 0, fresh),
                                       Ev("write", repo.full_name, repo.pushed_at, 0, fresh)>>,
                               NoRes))
  /\ UNCHANGED <<disk, blacklist, pushed, diskFaults, loaded, route, repos>>

\* lines 62-68 and 142-144: the write ends, well or not, and
\* fetchLanguageCountsForRepo returns the fresh mapping.
\*   "written":   writeFile resolves and the file holds the text it was given;
\*   "mixed":     writeFile resolves while another writeFile of the same file
\*                is in flight: Node leaves the outcome of such writes open,
\*                and the file may hold bytes of both texts;
\*   "refused":   writeFile rejects and the file is as it was;
\*   "truncated": writeFile rejects after it opened the file, which holds no
\*                text.
SaveEnd(q, how) ==
  /\ pc[q] = "save"
  /\ how = "mixed" => \E o \in Procs \ {q} : pc[o] = "save"
  /\ how \in {"refused", "truncated"} => diskFaults < MaxDiskFaults
  /\ diskFaults' = IF how \in {"refused", "truncated"} THEN diskFaults + 1 ELSE diskFaults
  /\ disk' = CASE how = "written" -> snapshot[q]
               [] how = "refused" -> disk
               [] OTHER -> GarbageFile
  /\ snapshot' = [snapshot EXCEPT ![q] = AbsentFile]
  /\ languages' = [languages EXCEPT ![q] = EmptyMap]
  /\ response' = [response EXCEPT ![q] = NoReply]
  /\ LET repo == repos[q][idx[q]]
         lg == Append(log[q], Ev(IF how \in {"written", "mixed"} THEN "saved" ELSE "unsaved",
                                 repo.full_name, repo.pushed_at, 0, languages[q]))
     IN  Resume(q, IF SaveThrows(how)
                   THEN Throw(idx[q], languageCounts[q], lg, "write failed")
                   ELSE Returned(repos[q], route[q], idx[q], languageCounts[q],
                                 languages[q], lg))
  /\ UNCHANGED <<cache, blacklist, pushed, loaded, route, repos>>

\* the response has been sent: the handler is over
Finish(q) ==
  /\ pc[q] = "done"
  /\ route' = [route EXCEPT ![q] = NoRoute]
  /\ repos' = [repos EXCEPT ![q] = <<>>]
  /\ Resume(q, Out("idle", 0, EmptyMap, <<>>, NoRes))
  /\ UNCHANGED <<Shared, languages, response, snapshot>>

\* somebody pushes to the repository: GitHub's pushed_at moves on
Push(n) ==
  /\ pushed[n] < MaxMarker
  /\ pushed' = [pushed EXCEPT ![n] = @ + 1]
  /\ UNCHANGED <<cache, disk, blacklist, diskFaults, loaded, Locals,
                 pc, idx, languageCounts, res, log>>

Routes == {[kind |-> "all", repoName |-> ""]}
            \cup {[kind |-> "one", repoName |-> n] : n \in Names}

Step(q) ==
  \/ \E rt \in Routes : Request(q, rt)
  \/ \E remaining \in 0..1 : RateReply(q, remaining)
  \/ RateFail(q)
  \/ \E names \in Listings : ListReply(q, names)
  \/ ListFail(q)
  \/ \E reply \in LocReplies : LocReply(q, reply)
  \/ \E how \in {"written", "refused", "truncated"} : SaveEnd(q, how)
  \/ Finish(q)

\* The server handling one request at a time, while repositories are pushed
\* to.
Next ==
  \/ Step("p1")
  \/ \E n \in Names : Push(n)

Spec == Init /\ [][Next]_vars

\* The server with no file at startup
InitConc ==
  /\ cache = loadDataFromFile(AbsentFile, DefaultCache)
  /\ disk = FileAfterLoad(AbsentFile, DefaultCache)
  /\ loaded = loadDataFromFile(AbsentFile, DefaultCache)
  /\ blacklist = loadDataFromFile([kind |-> "absent", val |-> DefaultBlacklist],
                                  DefaultBlacklist)
  /\ pushed = [n \in Names |-> 1]
  /\ diskFaults = 0
  /\ TypeInit

\* a step of a request by name for which no call fails
ConcStep(q) ==
  \/ \E rt \in {r \in Routes : r.kind = "one"} : Request(q, rt)
  \/ RateReply(q, 1)
  \/ \E names \in {s \in Listings : Len(s) = Cardinality(Names)} : ListReply(q, names)
  \/ \E reply \in {r \in LocReplies : r.kind = "array" /\ Len(r.data) = 1} :
       LocReply(q, reply)
  \/ \E how \in {"written", "mixed"} : SaveEnd(q, how)
  \/ Finish(q)

\* The server handling requests by name at the same time, while
\* repositories are pushed to; no call and no write fails.
NextConc ==
  \/ \E q \in Procs : ConcStep(q)
  \/ \E n \in Names : Push(n)

SpecConc == InitConc /\ [][NextConc]_vars

\* blacklist.json documents that are present and malformed: text JSON.parse
\* rejects, a JSON value that is no object, the array [], and objects
\* without some of the array fields (the second is the format before
\* "languages" was added)
MalformedBlacklistFiles ==
  { [kind |-> "garbage", val |-> DefaultBlacklist],
    [kind |-> "scalar", val |-> DefaultBlacklist],
    JSONstringify(EmptyMap),
    JSONstringify([repos |-> {"b"}, paths |-> <<"dist">>]),
    JSONstringify([languages |-> {"Go"}]) }

\* The state once the module has been loaded with no cache.json and a
\* malformed blacklist.json
InitBoot ==
  /\ cache = loadDataFromFile(AbsentFile, DefaultCache)
  /\ disk = FileAfterLoad(AbsentFile, DefaultCache)
  /\ loaded = loadDataFromFile(AbsentFile, DefaultCache)
  /\ \E bf \in MalformedBlacklistFiles :
       blacklist = loadDataFromFile(bf, DefaultBlacklist)
  /\ pushed = [n \in Names |-> 1]
  /\ diskFaults = 0
  /\ TypeInit

\* The server started with a malformed blacklist.json
SpecBoot == InitBoot /\ [][Next]_vars

\* ---------------------------------------------------------------- history
\* The entry {latestCommit: m, languages: l}
Entry(m, l) == [latestCommit |-> m, languages |-> l]

\* The cache holds for the repository of history entry e what e says
Holds(c, e, l) == e.repo \in DOMAIN c /\ c[e.repo] = Entry(e.at, l)

\* The positions of a history where fetchLanguageCountsForRepo returned a
\* mapping: the stored one ("hit") or a fresh one (after the write ended)
ResolvedAt(L) == {k \in DOMAIN L : L[k].op \in {"hit", "saved", "unsaved"}}

\* The sum over the positions S of history L of the lines of language l
RECURSIVE SumLines(_, _, _)
SumLines(L, S, l) ==
  IF S = {} THEN 0
  ELSE LET k == CHOOSE j \in S : TRUE
       IN  (IF l \in DOMAIN L[k].langs THEN L[k].langs[l] ELSE 0)
           + SumLines(L, S \ {k}, l)

\* The mapping whose keys are the languages of the mappings at positions S,
\* each with the sum of its counts
TotalOf(L, S) ==
  [l \in UNION {DOMAIN L[k].langs : k \in S} |-> SumLines(L, S, l)]

\* The full names of the repositories of a listing that are not blacklisted
Wanted(rs) == {rs[i].full_name : i \in {j \in DOMAIN rs : rs[j].name \notin blacklist.repos}}

Excluded(m) == DOMAIN m \cap blacklist.languages

\* ------------------------------------------------------------------ claims

\* C1: a call of fetchLanguageCountsForRepo for a repository whose cache
\* entry exists with latestCommit equal to the repository's pushed_at makes
\* no call of the line counter and returns exactly the stored languages
\* mapping, which stays stored.
C1_CacheHit ==
  \A q \in Procs : \A k \in DOMAIN log[q] :
    LET L == log[q]
        e == L[k]
    IN  e.op = "fetch" /\ e.had = e.at =>
          /\ k + 1 \in DOMAIN L
          /\ L[k + 1].op = "hit"
          /\ L[k + 1].langs = e.langs
          /\ k + 2 \in DOMAIN L => L[k + 2].op \in {"fetch", "return"}
          /\ \A j \in DOMAIN L : L[j].repo = e.repo => L[j].op \in {"fetch", "hit"}
          /\ Holds(cache, e, e.langs)
          /\ route[q].kind = "one" => pc[q] = "done" /\ res[q] = Ok200(e.langs)

\* C1's case: a request answered from an entry that is up to date
C1_Witness ==
  \E q \in Procs : \E k \in DOMAIN log[q] :
    /\ log[q][k].op = "fetch" /\ log[q][k].had = log[q][k].at
    /\ DOMAIN log[q][k].langs # {}
    /\ pc[q] = "done" /\ res[q].status = 200

\* C2: a call of fetchLanguageCountsForRepo for a repository with no cache
\* entry, or one whose latestCommit differs from the repository's pushed_at,
\* calls the line counter exactly once; when that answers, the mapping built
\* has no blacklisted language, is stored with the repository's pushed_at
\* under its full name in place of any prior entry, is what the write
\* carries, and is what the call returns.
C2_CacheMiss ==
  \A q \in Procs : \A k \in DOMAIN log[q] :
    LET L == log[q]
        e == L[k]
    IN  e.op = "fetch" /\ e.had # e.at =>
          /\ k + 1 \in DOMAIN L
          /\ L[k + 1].op = "loc" /\ L[k + 1].repo = e.repo
          /\ Cardinality({j \in DOMAIN L : L[j].op = "loc" /\ L[j].repo = e.repo}) = 1
          /\ k + 2 \in DOMAIN L => L[k + 2].op \in {"error", "object", "array"}
          /\ k + 2 \in DOMAIN L /\ L[k + 2].op = "array" =>
               /\ k + 4 \in DOMAIN L
               /\ L[k + 3].op = "put" /\ L[k + 4].op = "write"
               /\ L[k + 3].repo = e.repo /\ L[k + 3].at = e.at
               /\ Excluded(L[k + 3].langs) = {}
               /\ Holds(cache, e, L[k + 3].langs)
               /\ Len(L) = k + 4 =>
                    /\ pc[q] = "save"
                    /\ languages[q] = L[k + 3].langs
                    /\ snapshot[q] = JSONstringify(cache)
               /\ k + 5 \in DOMAIN L =>
                    /\ L[k + 5].op \in {"saved", "unsaved"}
                    /\ L[k + 5].langs = L[k + 3].langs
               /\ k + 6 \in DOMAIN L => L[k + 6].op \in {"fetch", "return"}
               /\ route[q].kind = "one" /\ pc[q] = "done" => res[q] = Ok200(L[k + 3].langs)

\* C2's case: a stale entry is being replaced by a mapping built from a
\* response that names a blacklisted language
C2_Witness ==
  \E q \in Procs : \E k \in DOMAIN log[q] :
    /\ log[q][k].op = "fetch"
    /\ log[q][k].had \notin {0, log[q][k].at}
    /\ pc[q] = "save"
    /\ \E i \in DOMAIN response[q].data :
         response[q].data[i].language \in blacklist.languages
    /\ DOMAIN languages[q] # {}
    /\ cache[log[q][k].repo] # Entry(log[q][k].had, log[q][k].langs)

\* C3: the mapping aggregateLanguageCounts returns has as keys the union of
\* the languages of the mappings resolved for the repositories of its list
\* that are not blacklisted, each with the sum of its counts over them; for
\* the empty list it is the empty mapping.
C3_AggregateIsSum ==
  \A q \in Procs :
    route[q].kind = "all" /\ pc[q] = "done" /\ res[q].status = 200 =>
      LET L == log[q]
          S == ResolvedAt(L)
      IN  /\ res[q].body = TotalOf(L, S)
          /\ {L[k].repo : k \in S} = Wanted(repos[q])
          /\ Cardinality(S) = Cardinality(Wanted(repos[q]))
          /\ repos[q] = <<>> => res[q].body = EmptyMap

\* C3's case: two repositories resolved, with a language in common and a
\* language only one of them has
C3_Witness ==
  \E q \in Procs :
    /\ route[q].kind = "all" /\ pc[q] = "done" /\ res[q].status = 200
    /\ LET L == log[q]
           S == ResolvedAt(L)
       IN  \E j, k \in S :
             /\ j # k
             /\ DOMAIN L[j].langs \cap DOMAIN L[k].langs # {}
             /\ DOMAIN L[j].langs # DOMAIN L[k].langs

\* C4: aggregateLanguageCounts does nothing for a repository whose short
\* name is in blacklist.repos (no call, no cache write, no part in the
\* result), while the route with a repoName resolves the repository of that
\* name whenever the listing has it, blacklisted or not.
C4_RepoBlacklist ==
  \A q \in Procs :
    /\ route[q].kind = "all" =>
         /\ \A k \in DOMAIN log[q] :
              log[q][k].repo \notin {FullName(n) : n \in blacklist.repos}
         /\ pc[q] = "done" /\ res[q].status = 200 =>
              res[q].body = TotalOf(log[q],
                {k \in ResolvedAt(log[q]) : log[q][k].repo \in Wanted(repos[q])})
    /\ route[q].kind = "one" /\ pc[q] \in {"loc", "save", "done"}
         /\ (\E i \in DOMAIN repos[q] : repos[q][i].name = route[q].repoName) =>
         /\ Len(log[q]) >= 4
         /\ log[q][4].op = "fetch"
         /\ log[q][4].repo = FullName(route[q].repoName)
         /\ pc[q] = "done" /\ res[q].status = 200 =>
              \E k \in ResolvedAt(log[q]) :
                /\ log[q][k].repo = FullName(route[q].repoName)
                /\ res[q].body = log[q][k].langs

\* C4's case: an aggregate request whose listing has a blacklisted
\* repository and one that is not, in a run where the blacklisted one has
\* been resolved by name before (its entry was not in the cache at startup)
C4_Witness ==
  \E q \in Procs : \E n \in blacklist.repos :
    /\ route[q].kind = "all" /\ pc[q] = "done" /\ res[q].status = 200
    /\ \E i \in DOMAIN repos[q] : repos[q][i].name = n
    /\ Len(repos[q]) = 2
    /\ DOMAIN res[q].body # {}
    /\ FullName(n) \in DOMAIN cache /\ FullName(n) \notin DOMAIN loaded

\* C5: on both routes the rate limit is the first call of a request, and
\* when it reports rate.remaining = 0 the handler answers 429 having called
\* neither the listing nor the line counter, resolved nothing and written
\* nothing to the cache.
C5_RateLimit ==
  \A q \in Procs :
    LET L == log[q]
    IN  /\ L # <<>> => L[1].op = "rate"
        /\ \A k \in DOMAIN L : k > 1 => L[k].op # "rate"
        /\ \A k \in DOMAIN L :
             L[k].op = "budget" /\ L[k].at = 0 =>
               /\ L = <<Ev0("rate"), Ev("budget", "", 0, 0, EmptyMap)>>
               /\ pc[q] = "done"
               /\ res[q] = Err(429, "Rate limit exceeded")
               /\ repos[q] = <<>>
               /\ snapshot[q] = AbsentFile
               /\ languages[q] = EmptyMap

\* C5's case: a request by name refused with 429 while the cache holds an
\* entry for the repository asked for
C5_Witness ==
  \E q \in Procs :
    /\ route[q].kind = "one"
    /\ res[q].status = 429
    /\ FullName(route[q].repoName) \in DOMAIN cache

\* C6: when the call of the line counter fails, or its response is no
\* array, fetchLanguageCountsForRepo throws that error, the request ends
\* with it, and the call has neither stored an entry nor started a write:
\* the repository's cache entry is the one the call found.
C6_FailureWritesNothing ==
  \A q \in Procs : \A k \in DOMAIN log[q] :
    LET L == log[q]
    IN  L[k].op \in {"error", "object"} =>
          /\ k >= 3 /\ L[k - 2].op = "fetch" /\ L[k - 1].op = "loc"
          /\ Len(L) = k + 1 /\ L[k + 1].op = "throw"
          /\ pc[q] = "done"
          /\ res[q] = Err(500, IF L[k].op = "error" THEN "Network Error" ELSE "TypeError")
          /\ \A j \in DOMAIN L : L[j].repo = L[k].repo => L[j].op \notin {"put", "write"}
          /\ snapshot[q] = AbsentFile
          /\ LET e == L[k - 2]
             IN  IF e.had = 0 THEN e.repo \notin DOMAIN cache
                 ELSE e.repo \in DOMAIN cache /\ cache[e.repo] = Entry(e.had, e.langs)

\* C6's case: a response that is no array for a repository whose entry is
\* out of date
C6_Witness ==
  \E q \in Procs : \E k \in DOMAIN log[q] :
    /\ log[q][k].op = "object"
    /\ log[q][k - 2].had \notin {0, log[q][k - 2].at}
    /\ DOMAIN log[q][k - 2].langs # {}

\* C7: an aggregate request in which something fails ends with status 500
\* and an error body without language counts, and every entry the request
\* stored before the failure is still in the cache.
C7_NoPartialResult ==
  \A q \in Procs :
    LET L == log[q]
    IN  route[q].kind = "all" /\ (\E k \in DOMAIN L : L[k].op = "throw") =>
          /\ pc[q] = "done"
          /\ L[Len(L)].op = "throw"
          /\ res[q].status = 500
          /\ res[q].body = EmptyMap
          /\ res[q].error # ""
          /\ \A k \in DOMAIN L : L[k].op = "put" => Holds(cache, L[k], L[k].langs)

\* C7's case: the second repository fails after the first was resolved on a
\* miss and had counts
C7_Witness ==
  \E q \in Procs :
    /\ route[q].kind = "all" /\ pc[q] = "done" /\ res[q].status = 500
    /\ languageCounts[q] # EmptyMap
    /\ \E k \in DOMAIN log[q] : log[q][k].op = "put" /\ DOMAIN log[q][k].langs # {}

\* C8: when the write of cache.json fails, fetchLanguageCountsForRepo
\* returns the fresh mapping all the same, the request does not fail for
\* it, and the cache keeps the fresh entry, which is up to date for the
\* marker it was stored with.
C8_WriteFailureSwallowed ==
  \A q \in Procs : \A k \in DOMAIN log[q] :
    LET L == log[q]
        e == L[k]
    IN  e.op = "unsaved" =>
          /\ k + 1 \in DOMAIN L
          /\ L[k + 1].op \in {"fetch", "return"}
          /\ L[k - 2].op = "put" /\ L[k - 2].langs = e.langs
          /\ Holds(cache, e, e.langs)
          /\ CacheIsFresh([name |-> "", full_name |-> e.repo, pushed_at |-> e.at])
          /\ route[q].kind = "one" => pc[q] = "done" /\ res[q] = Ok200(e.langs)
          /\ pc[q] = "done" /\ L[Len(L)].op = "return" => res[q].status = 200

\* C8's case: a request by name answered with a fresh mapping the file does
\* not hold
C8_Witness ==
  \E q \in Procs : \E k \in DOMAIN log[q] :
    /\ log[q][k].op = "unsaved"
    /\ route[q].kind = "one" /\ pc[q] = "done" /\ res[q].status = 200
    /\ DOMAIN res[q].body # {}
    /\ loadDataFromFile(disk, DefaultCache) # cache

\* C9 as stated: every cache mutation is flushed before the resolver
\* returns, whatever the interleaving of the requests, when no write fails:
\* whenever no resolution is in progress, loading cache.json gives the
\* in-memory cache. (Checked where no write fails, under SpecConc.)
C9_DiskEqualsCache ==
  (\A q \in Procs : pc[q] \in {"idle", "done"}) =>
    loadDataFromFile(disk, DefaultCache) = cache

\* C10 as stated: no blacklisted language is in an entry the resolver
\* stores or in a mapping aggregateLanguageCounts returns, whatever cache
\* document was loaded.
C10_NoExcludedLanguage ==
  \A q \in Procs :
    /\ \A k \in DOMAIN log[q] : log[q][k].op = "put" => Excluded(log[q][k].langs) = {}
    /\ route[q].kind = "all" /\ pc[q] = "done" /\ res[q].status = 200 =>
         Excluded(res[q].body) = {}

\* C10, amended: no blacklisted language is in an entry the resolver stores;
\* an entry of the cache holds one only if it is an entry of the document
\* loaded at startup, and a mapping aggregateLanguageCounts returns holds one
\* only from a hit on such an entry.
C10_ExcludedOnlyFromLoaded ==
  /\ \A r \in DOMAIN cache :
       Excluded(cache[r].languages) # {} => r \in DOMAIN loaded /\ cache[r] = loaded[r]
  /\ \A q \in Procs :
       /\ \A k \in DOMAIN log[q] : log[q][k].op = "put" => Excluded(log[q][k].langs) = {}
       /\ route[q].kind = "all" /\ pc[q] = "done" /\ res[q].status = 200 =>
            \A l \in Excluded(res[q].body) :
              /\ \E k \in DOMAIN log[q] :
                   /\ log[q][k].op = "hit" /\ l \in DOMAIN log[q][k].langs
                   /\ log[q][k].repo \in DOMAIN loaded
                   /\ loaded[log[q][k].repo] = Entry(log[q][k].at, log[q][k].langs)
              /\ \A k \in DOMAIN log[q] :
                   log[q][k].op \in {"saved", "unsaved"} => l \notin DOMAIN log[q][k].langs

\* C10's case: an aggregate that returns a blacklisted language
C10_Witness ==
  \E q \in Procs :
    /\ route[q].kind = "all" /\ pc[q] = "done" /\ res[q].status = 200
    /\ Excluded(res[q].body) # {}

\* C11 as stated: with a blacklist.json that is present and malformed the
\* server runs with {repos: [], paths: [], languages: []}: a request fails
\* only when a call fails or the named repository is not listed, and an
\* aggregate resolves every repository of its listing. (Checked under
\* SpecBoot, which loads only malformed documents.)
C11_MalformedFallsBack ==
  \A q \in Procs :
    /\ pc[q] = "done" /\ res[q].status = 500 =>
         \/ \E k \in DOMAIN log[q] : log[q][k].op \in {"error", "object"}
         \/ res[q].error \in {"rate limit failed", "listing failed",
                              "Repository not found"}
    /\ pc[q] = "done" /\ res[q].status = 200 /\ route[q].kind = "all" =>
         {log[q][k].repo : k \in ResolvedAt(log[q])}
           = {repos[q][i].full_name : i \in DOMAIN repos[q]}

\* C12: when the listing of a request for one repository arrives and no
\* repository of it has the requested short name, the request ends at once
\* with status 500 and the message "Repository not found", calls the line
\* counter for no repository, starts no write, and leaves the cache and the
\* file as they are
C12_NotFound ==
  [][\A q \in Procs :
       ( /\ pc[q] = "list" /\ pc'[q] # "list"
         /\ route[q].kind = "one"
         /\ res'[q].error # "listing failed"
         /\ \A i \in DOMAIN repos'[q] : repos'[q][i].name # route[q].repoName )
       => /\ pc'[q] = "done"
          /\ res'[q] = Err(500, "Repository not found")
          /\ \A k \in DOMAIN log'[q] : log'[q][k].op \notin {"fetch", "loc", "put", "write"}
          /\ cache' = cache /\ disk' = disk /\ snapshot' = snapshot]_vars

C12_Witness ==
  /\ pc["p1"] = "done" /\ route["p1"].kind = "one"
  /\ repos["p1"] # <<>>
  /\ res["p1"] = Err(500, "Repository not found")

\* The sum of linesOfCode over the records of data that carry language l
RECURSIVE RecordSum(_, _)
RecordSum(data, l) ==
  IF data = <<>> THEN 0
  ELSE (IF Head(data).language = l THEN Head(data).linesOfCode ELSE 0)
       + RecordSum(Tail(data), l)

\* C13: on a miss, the mapping that is stored in the cache and returned has
\* exactly the languages of the response's records that are not blacklisted,
\* each with the sum of linesOfCode over all the records that carry it (a
\* language may repeat across records)
C13_SumOfRecords ==
  \A q \in Procs :
    /\ pc[q] = "save" =>
         LET data == response[q].data
             repo == repos[q][idx[q]]
             L == log[q]
         IN  /\ DOMAIN languages[q]
                  = {data[k].language : k \in DOMAIN data} \ blacklist.languages
             /\ \A l \in DOMAIN languages[q] : languages[q][l] = RecordSum(data, l)
             /\ Holds(cache, L[Len(L)], languages[q])
             /\ L[Len(L) - 1].op = "put" /\ L[Len(L) - 1].langs = languages[q]
             /\ L[Len(L)].repo = repo.full_name
    /\ ( /\ pc[q] = "done" /\ route[q].kind = "one" /\ res[q].status = 200
         /\ Len(log[q]) >= 2
         /\ log[q][Len(log[q]) - 1].op \in {"saved", "unsaved"} )
       => res[q].body = log[q][Len(log[q]) - 1].langs

C13_Witness ==
  /\ pc["p1"] = "save"
  /\ response["p1"].data = <<[language |-> "JS", linesOfCode |-> 1],
                             [language |-> "JS", linesOfCode |-> 1]>>
  /\ languages["p1"] = [l \in {"JS"} |-> 2]

\* The positions of history L with operation op on repository r at marker m
At(L, op, r, m) == {k \in DOMAIN L : L[k].op = op /\ L[k].repo = r /\ L[k].at = m}

\* C14: when two requests in flight at the same time have both missed the
\* same repository at the same marker, both called the line counter and both
\* stored an entry, the cache holds for the repository one of the two
\* entries, with that marker (the later put replaced the earlier one); and a
\* request that resolves the repository at that marker while the entry is
\* stored is a hit and calls no line counter
C14_Converges ==
  \A q \in Procs : \A o \in Procs \ {q} :
    \A r \in {FullName(n) : n \in Names} : \A m \in 1..MaxMarker :
      /\ \A i \in At(log[q], "put", r, m) : \A j \in At(log[o], "put", r, m) :
           /\ At(log[q], "loc", r, m) # {} /\ At(log[o], "loc", r, m) # {}
           /\ r \in DOMAIN cache
           /\ cache[r] \in {Entry(m, log[q][i].langs), Entry(m, log[o][j].langs)}
      /\ \A j \in At(log[o], "put", r, m) : \A k \in At(log[q], "fetch", r, m) :
           log[q][k].had = m =>
             /\ At(log[q], "loc", r, m) = {}
             /\ k < Len(log[q]) /\ log[q][k + 1].op = "hit"
             /\ log[q][k + 1].langs = log[q][k].langs

C14_Witness ==
  /\ pc["p1"] = "done" /\ pc["p2"] = "done"
  /\ \E i \in At(log["p1"], "put", "u/a", 1) : \E j \in At(log["p2"], "put", "u/a", 1) :
       /\ log["p1"][i].langs # log["p2"][j].langs
       /\ cache["u/a"] = Entry(1, log["p2"][j].langs)
  /\ At(log["p1"], "loc", "u/a", 1) # {} /\ At(log["p2"], "loc", "u/a", 1) # {}

\* The positions of history L with operation in ops on repository r
OpsOn(L, ops, r) == {k \in DOMAIN L : L[k].op \in ops /\ L[k].repo = r}

\* C15: a run of aggregateLanguageCounts calls fetchLanguageCountsForRepo at
\* most once for a repository of its list and never for a blacklisted one;
\* when the run returns, each repository that is not blacklisted has been
\* resolved exactly once (one call, one mapping returned), in the order of
\* the list
C15_EachOnce ==
  \A q \in Procs :
    route[q].kind = "all" =>
      \A i \in DOMAIN repos[q] :
        LET r == repos[q][i].full_name
            F == OpsOn(log[q], {"fetch"}, r)
            R == OpsOn(log[q], {"hit", "saved", "unsaved"}, r)
        IN  /\ Cardinality(F) <= 1 /\ Cardinality(R) <= Cardinality(F)
            /\ RepoBlacklisted(repos[q][i]) => F = {}
            /\ (pc[q] = "done" /\ res[q].status = 200 /\ ~RepoBlacklisted(repos[q][i])) =>
                 /\ Cardinality(F) = 1 /\ Cardinality(R) = 1
                 /\ \A j \in DOMAIN repos[q] :
                      (j < i /\ ~RepoBlacklisted(repos[q][j])) =>
                        \A k \in F : \E h \in OpsOn(log[q], {"fetch"}, repos[q][j].full_name) :
                          h < k

\* C15's case: a returned aggregate over a listing of two repositories, one
\* blacklisted and one resolved by a call of the line counter
C15_Witness ==
  /\ pc["p1"] = "done" /\ route["p1"].kind = "all" /\ res["p1"].status = 200
  /\ Len(repos["p1"]) = 2
  /\ \E i \in DOMAIN repos["p1"] : RepoBlacklisted(repos["p1"][i])
  /\ \E i \in DOMAIN repos["p1"] :
       OpsOn(log["p1"], {"loc"}, repos["p1"][i].full_name) # {}

\* The answers of the line counter, one for each repository
Answers == [{FullName(n) : n \in Names} -> LocReplies]

\* The listings with the repositories of listing s in another order
Reorderings(s) ==
  {t \in Listings : Len(t) = Len(s) /\ {t[i] : i \in DOMAIN t} = {s[i] : i \in DOMAIN s}}

\* the repositories of the listing s as GitHub lists them now
Refs(s) == [i \in DOMAIN s |-> RepoRef(s[i])]

\* What the run of aggregateLanguageCounts of request q comes to from where
\* it is, under the answers a
Pending(q, a) ==
  CASE pc[q] = "loc" ->
         RunAggregate(cache, repos[q], idx[q], languageCounts[q], a)
    [] pc[q] = "save" ->
         RunAggregate(cache, repos[q], idx[q] + 1,
                      AddEntries(languageCounts[q], languages[q]), a)
    [] OTHER ->
         [ok |-> res[q].status = 200, cache |-> cache, body |-> res[q].body]

\* The answer the step of q at "loc" takes from the line counter
Taken(q) ==
  IF pc'[q] = "save" THEN response'[q]
  ELSE [kind |-> log'[q][Len(log'[q]) - 1].op, data |-> <<>>]

\* The answers that are fixed for the repositories of fixed and are any
\* answer for the repositories of rs after position i (the others are not
\* asked for)
AnswersAfter(rs, i, fixed) ==
  LET R == {rs[k].full_name : k \in {j \in DOMAIN rs : j > i}} \ DOMAIN fixed
  IN  {[n \in {FullName(m) : m \in Names} |->
          IF n \in DOMAIN fixed THEN fixed[n]
          ELSE IF n \in R THEN f[n] ELSE [kind |-> "error", data |-> <<>>]] :
         f \in [R -> LocReplies]}

\* The steps of an aggregate request follow RunAggregate: what the run comes
\* to is the same before and after each of its steps
FollowsRun ==
  \A q \in Procs :
    route[q].kind = "all" =>
      /\ (pc[q] = "list" /\ pc'[q] \in {"loc", "done"}
          /\ res'[q].error # "listing failed") =>
           \A a \in AnswersAfter(repos'[q], 0, EmptyMap) :
             RunAggregate(cache, repos'[q], 1, EmptyMap, a) = Pending(q, a)'
      /\ pc[q] = "loc" /\ pc'[q] # "loc" =>
           \A a \in AnswersAfter(repos[q], idx[q],
                                 repos[q][idx[q]].full_name :> Taken(q)) :
             Pending(q, a) = Pending(q, a)'
      /\ pc[q] = "save" /\ pc'[q] # "save" =>
           \A a \in AnswersAfter(repos[q], idx[q], EmptyMap) :
             Pending(q, a) = Pending(q, a)'

\* from the cache as it is when no request is in flight, RunAggregate gives
\* the same mapping and the same cache for every order of the list
SameForEveryOrder ==
  (\A q \in Procs : pc[q] = "idle") =>
    \A s \in Listings : \A t \in Reorderings(s) : \A answers \in Answers :
      LET one == RunAggregate(cache, Refs(s), 1, EmptyMap, answers)
          other == RunAggregate(cache, Refs(t), 1, EmptyMap, answers)
      IN  one.ok => other = one

\* C16: for the same starting cache and the same answers of the line
\* counter, a run of aggregateLanguageCounts that returns gives the same
\* mapping and leaves the same cache for every order of the repositories of
\* its list (and returns for every order if it returns for one); the steps
\* of an aggregate request are those of such a run
C16_OrderIndependent == []SameForEveryOrder /\ [][FollowsRun]_vars

\* C16's case: a cache the resolver has written to, with a fresh entry for
\* one repository and none for the other, and answers under which the run
\* over both returns a mapping with a language counted in both
C16_Witness ==
  /\ \A q \in Procs : pc[q] = "idle"
  /\ cache # loaded
  /\ \E answers \in Answers :
       LET one == RunAggregate(cache, Refs(<<"a", "b">>), 1, EmptyMap, answers)
       IN  /\ one.ok
           /\ one.cache # cache /\ cache # EmptyMap
           /\ \E l \in DOMAIN one.body : one.body[l] >= 2
           /\ one = RunAggregate(cache, Refs(<<"b", "a">>), 1, EmptyMap, answers)

\* C17: a request calls the rate limit and the listing at most once each and
\* the line counter at most once for a repository; a call that fails (the
\* rate limit, the listing, or the line counter, whose answer may also be no
\* array) is followed by the throw that ends the request with status 500,
\* and by no other call and no cache write
C17_NoRetry ==
  \A q \in Procs :
    LET L == log[q]
    IN  /\ \A r \in {FullName(n) : n \in Names} :
             Cardinality(OpsOn(L, {"loc"}, r)) <= 1
        /\ Cardinality({k \in DOMAIN L : L[k].op = "rate"}) <= 1
        /\ Cardinality({k \in DOMAIN L : L[k].op = "list"}) <= 1
        /\ \A k \in DOMAIN L :
             /\ L[k].op \in {"error", "object"} =>
                  k + 1 = Len(L) /\ L[k + 1].op = "throw"
             /\ L[k].op = "throw" =>
                  k = Len(L) /\ pc[q] = "done" /\ res[q].status = 500
        /\ (pc[q] = "done" /\ res[q].error \in {"rate limit failed", "listing failed",
                                               "Network Error"}) =>
             L[Len(L)].op = "throw"
        /\ pc[q] \in {"rate", "list", "loc", "save"} =>
             \A k \in DOMAIN L : L[k].op \notin {"error", "object", "throw"}

\* C17's case: an aggregate request that has stored an entry for one
\* repository and ends on the failed call for the next
C17_Witness ==
  /\ pc["p1"] = "done" /\ res["p1"].error = "Network Error"
  /\ \E k \in DOMAIN log["p1"] : log["p1"][k].op = "put"
  /\ Len(repos["p1"]) = 2

\* C18: no step removes an entry of the cache; a step that changes the cache
\* is the store of a miss by a request resolving a repository R, and it
\* changes or creates the entry of R and leaves every other entry as it was
C18_EntriesKept ==
  [][/\ DOMAIN cache \subseteq DOMAIN cache'
     /\ cache' # cache =>
          \E q \in Procs :
            /\ pc[q] = "loc" /\ pc'[q] = "save"
            /\ LET R == repos[q][idx[q]].full_name
               IN  /\ DOMAIN cache' = DOMAIN cache \cup {R}
                   /\ \A r \in DOMAIN cache \ {R} : cache'[r] = cache[r]]_vars

\* C18's case: the entry of one repository was stored while the cache held
\* the entry of the other, which is as it was loaded
C18_Witness ==
  /\ DOMAIN loaded = {"u/a"}
  /\ DOMAIN cache = {"u/a", "u/b"}
  /\ cache["u/a"] = loaded["u/a"]
  /\ \E k \in DOMAIN log["p1"] : log["p1"][k].op = "put" /\ log["p1"][k].repo = "u/b"

\* C19: a request that answers 200 without a call of the line counter (each
\* repository it resolves is a hit) is answered in the step that receives
\* the listing; no step of it changes the cache, the file, or the writes in
\* progress, its history has no put and no write, and the entries it has hit
\* are, after it, the mappings it was given, with their markers
C19_HitsChangeNothing ==
  [][\A q \in Procs :
       /\ pc[q] \in {"idle", "rate"} /\ pc'[q] # pc[q] =>
            cache' = cache /\ disk' = disk /\ snapshot' = snapshot
       /\ ( /\ pc[q] # "done" /\ pc'[q] = "done" /\ res'[q].status = 200
            /\ \A k \in DOMAIN log'[q] : log'[q][k].op # "loc" ) =>
            /\ pc[q] = "list"
            /\ cache' = cache /\ disk' = disk /\ snapshot' = snapshot
            /\ diskFaults' = diskFaults
            /\ \A k \in DOMAIN log'[q] :
                 /\ log'[q][k].op \notin {"put", "write", "saved", "unsaved"}
                 /\ log'[q][k].op = "hit" =>
                      Holds(cache', log'[q][k], log'[q][k].langs)
            /\ route[q].kind = "one" =>
                 \E k \in DOMAIN log'[q] :
                   /\ log'[q][k].op = "hit"
                   /\ res'[q].body = cache'[log'[q][k].repo].languages]_vars

\* C19's case: an aggregate request answered from two hits
C19_Witness ==
  /\ pc["p1"] = "done" /\ res["p1"].status = 200 /\ route["p1"].kind = "all"
  /\ Cardinality({k \in DOMAIN log["p1"] : log["p1"][k].op = "hit"}) = 2
  /\ \A k \in DOMAIN log["p1"] : log["p1"][k].op # "loc"

\* The marker the request q found stored for repository r when it tested
\* the cache (0 when there was no entry)
Found(q, r) ==
  LET F == OpsOn(log[q], {"fetch"}, r)
  IN  IF F = {} THEN 0 ELSE log[q][CHOOSE k \in F : TRUE].had

StoredMarkers ==
  /\ \A n \in Names :
       FullName(n) \in DOMAIN cache => cache[FullName(n)].latestCommit <= pushed[n]
  /\ \A q \in Procs : \A k \in DOMAIN log[q] :
       log[q][k].op = "put" => Found(q, log[q][k].repo) < log[q][k].at

\* a step that takes the marker of repository r back is the store of a
\* request that listed r at the older marker and tested the cache before
\* the entry it replaces was stored
BackOnlyOverLaterEntry ==
  \A r \in DOMAIN cache :
    cache'[r].latestCommit < cache[r].latestCommit =>
      \E q \in Procs :
        /\ pc[q] = "loc" /\ pc'[q] = "save"
        /\ repos[q][idx[q]].full_name = r
        /\ cache'[r].latestCommit = repos[q][idx[q]].pushed_at
        /\ Found(q, r) < cache[r].latestCommit
        /\ At(log[q], "put", r, cache[r].latestCommit) = {}

====
